---------------------------- MODULE Spec2Model ----------------------------
(***************************************************************************)
(* Model of the password analysis engine of password_security_app.py:      *)
(* charset detection, pattern detectors, strength score, the three attack  *)
(* estimators, the HIBP breach lookup and the Streamlit session state.     *)
(*                                                                         *)
(* Python values are represented as follows.                               *)
(*   str            a TLA+ string; a character is a string of length 1     *)
(*   int            a TLA+ integer when small; the keyspace, which Python  *)
(*                  keeps in arbitrary precision, is a sequence of base    *)
(*                  10000 limbs, least significant first (<<>> is 0)       *)
(*   Optional[str]  <<>> for None, <<s>> for the string s                  *)
(*   float          an exact fraction [num, den] or Inf (see FloatDiv)     *)
(*   a call         [exc |-> "" or the exception raised, val |-> result]   *)
(***************************************************************************)
EXTENDS Integers, Sequences, FiniteSets, TLC

VARIABLES
    password,        \* the password under analysis (text input / argument)
    dictionary,      \* the word list returned by load_dictionary
    attempts_per_sec,\* attacker throughput (sidebar number input)
    ret,             \* what the last engine call returned or raised
    requests,        \* log of the HTTP requests sent by hibp_breach_count
    hibp_cache,      \* st.cache_data store of hibp_breach_count
    session_state,   \* st.session_state
    ui               \* what the last UI handler rendered

vars == <<password, dictionary, attempts_per_sec, ret, requests, hibp_cache,
          session_state, ui>>

---------------------------------------------------------------------------
(* Bounds of the model                                                     *)

MaxLen == 3          \* passwords are enumerated exhaustively up to this length
MaxWords == 3        \* lines of an uploaded word list
MaxCalls == 2        \* calls of hibp_breach_count in one behaviour
MaxSaves == 2        \* "save to history" clicks in one behaviour

---------------------------------------------------------------------------
(* Python str                                                              *)

ascii_lowercase == "abcdefghijklmnopqrstuvwxyz"
ascii_uppercase == "ABCDEFGHIJKLMNOPQRSTUVWXYZ"
ascii_digits == "0123456789"

CharsOf(s) == { SubSeq(s, i, i) : i \in 1..Len(s) }

LowerChars == CharsOf(ascii_lowercase)
UpperChars == CharsOf(ascii_uppercase)
DecimalChars == CharsOf(ascii_digits)
\* characters for which str.isdigit() holds and int() fails
SuperscriptDigits == {"²"}
\* alphanumeric characters that are neither lower, upper nor digit
CaselessAlnum == {"¼"}
Whitespace == {" "}

islower(c) == c \in LowerChars
isupper(c) == c \in UpperChars
isdigit(c) == c \in DecimalChars \cup SuperscriptDigits
\* a plausible slip: whitespace taken for alphanumeric
isalnum_or_space(c) == c \in LowerChars \cup UpperChars \cup DecimalChars
                            \cup SuperscriptDigits \cup CaselessAlnum \cup Whitespace

isalnum(c) == c \in LowerChars \cup UpperChars \cup DecimalChars
                   \cup SuperscriptDigits \cup CaselessAlnum

IndexIn(c, s) == CHOOSE i \in 1..Len(s) : SubSeq(s, i, i) = c

LowerOf == [c \in UpperChars |-> SubSeq(ascii_lowercase, IndexIn(c, ascii_uppercase),
                                         IndexIn(c, ascii_uppercase))]
UpperOf == [c \in LowerChars |-> SubSeq(ascii_uppercase, IndexIn(c, ascii_lowercase),
                                         IndexIn(c, ascii_lowercase))]
DigitValue == [c \in DecimalChars |-> IndexIn(c, ascii_digits) - 1]

\* The operators over whole strings split the string in halves, so that
\* their evaluation nests only logarithmically deep in the length.
RECURSIVE lower(_)
lower(s) ==
    IF Len(s) = 0 THEN ""
    ELSE IF Len(s) = 1 THEN (IF s \in UpperChars THEN LowerOf[s] ELSE s)
    ELSE lower(SubSeq(s, 1, Len(s) \div 2)) \o lower(SubSeq(s, Len(s) \div 2 + 1, Len(s)))

\* str.capitalize(): first character upper-cased, the rest lower-cased
capitalize(s) ==
    IF s = "" THEN ""
    ELSE LET c == SubSeq(s, 1, 1)
         IN (IF c \in LowerChars THEN UpperOf[c] ELSE c) \o lower(SubSeq(s, 2, Len(s)))

RECURSIVE Reverse(_)
Reverse(s) ==
    IF Len(s) <= 1 THEN s
    ELSE Reverse(SubSeq(s, Len(s) \div 2 + 1, Len(s))) \o Reverse(SubSeq(s, 1, Len(s) \div 2))

\* sub in s
Contains(sub, s) ==
    \E i \in 1..(Len(s) - Len(sub) + 1) : SubSeq(s, i, i + Len(sub) - 1) = sub

startswith(s, prefix) == Len(prefix) <= Len(s) /\ SubSeq(s, 1, Len(prefix)) = prefix

\* str.isdigit(): non-empty and every character is a digit
str_isdigit(s) == s # "" /\ \A c \in CharsOf(s) : isdigit(c)

\* str.strip(): from the first to the last character that is not whitespace
strip(s) ==
    LET inked == { i \in 1..Len(s) : SubSeq(s, i, i) \notin Whitespace }
    IN IF inked = {} THEN ""
       ELSE SubSeq(s, CHOOSE i \in inked : \A j \in inked : i <= j,
                      CHOOSE i \in inked : \A j \in inked : i >= j)

\* s * n
RECURSIVE Repeat(_, _)
Repeat(s, n) ==
    IF n <= 0 THEN ""
    ELSE IF n = 1 THEN s
    ELSE Repeat(s, n \div 2) \o Repeat(s, n - n \div 2)

\* int(s) for a string of ASCII decimal digits
RECURSIVE ParseDecimal(_)
ParseDecimal(s) ==
    IF s = "" THEN 0
    ELSE 10 * ParseDecimal(SubSeq(s, 1, Len(s) - 1)) + DigitValue[SubSeq(s, Len(s), Len(s))]

None == <<>>
Some(x) == <<x>>
Returns(v) == [exc |-> "", val |-> v]
Raises(e) == [exc |-> e, val |-> <<>>]

Min(a, b) == IF a < b THEN a ELSE b
Max(a, b) == IF a > b THEN a ELSE b

---------------------------------------------------------------------------
(* Python int: arbitrary precision, as limbs                               *)

Base == 10000

\* limbs lo..hi of a times m plus the carry coming in: the product limbs
\* and the carry going out (the range is split in halves; the test of the
\* carry coming in makes its value known before the halves are entered)
RECURSIVE MulRange(_, _, _, _, _)
MulRange(a, m, lo, hi, carry) ==
    IF lo > hi \/ carry < 0 THEN [limbs |-> <<>>, carry |-> carry]
    ELSE IF lo = hi
    THEN [limbs |-> <<(a[lo] * m + carry) % Base>>, carry |-> (a[lo] * m + carry) \div Base]
    ELSE LET mid == (lo + hi) \div 2
             low == MulRange(a, m, lo, mid, carry)
             high == MulRange(a, m, mid + 1, hi, low.carry)
         IN [limbs |-> low.limbs \o high.limbs, carry |-> high.carry]

RECURSIVE BigOf(_)
BigOf(n) == IF n = 0 THEN <<>> ELSE <<n % Base>> \o BigOf(n \div Base)

\* a * m for a small non-negative m
BigMulSmall(a, m) ==
    IF m = 0 THEN <<>>
    ELSE LET r == MulRange(a, m, 1, Len(a), 0) IN r.limbs \o BigOf(r.carry)

BigOne == <<1>>

\* acc * base ** n for a small positive base, by n multiplications
RECURSIVE MulPow(_, _, _)
MulPow(acc, base, n) ==
    IF n = 0 THEN acc
    ELSE IF n = 1 THEN BigMulSmall(acc, base)
    ELSE LET half == MulPow(acc, base, n \div 2)
         IN IF Len(half) >= 0 THEN MulPow(half, base, n - n \div 2) ELSE <<>>

BigPow(base, n) == MulPow(BigOne, base, n)

\* a >= b: the longer one, or the greater limb at the highest difference
BigGeq(a, b) ==
    IF Len(a) # Len(b) THEN Len(a) > Len(b)
    ELSE LET diff == { i \in 1..Len(a) : a[i] # b[i] }
         IN diff = {} \/ LET top == CHOOSE i \in diff : \A j \in diff : i >= j
                         IN a[top] > b[top]

\* long division of limbs hi down to lo of a by a small positive m, with
\* the remainder coming in from the limbs above
RECURSIVE DivRange(_, _, _, _, _)
DivRange(a, m, lo, hi, rem) ==
    IF lo > hi \/ rem < 0 THEN [q |-> <<>>, r |-> rem]
    ELSE IF lo = hi
    THEN [q |-> <<(rem * Base + a[lo]) \div m>>, r |-> (rem * Base + a[lo]) % m]
    ELSE LET mid == (lo + hi) \div 2
             high == DivRange(a, m, mid + 1, hi, rem)
             low == DivRange(a, m, lo, mid, high.r)
         IN [q |-> low.q \o high.q, r |-> low.r]

\* without the leading zero limbs
Trim(a) ==
    LET nz == { i \in 1..Len(a) : a[i] # 0 }
    IN IF nz = {} THEN <<>>
       ELSE SubSeq(a, 1, CHOOSE i \in nz : \A j \in nz : i >= j)

BigDivMod(a, m) ==
    LET d == DivRange(a, m, 1, Len(a), 0) IN [q |-> Trim(d.q), r |-> d.r]

---------------------------------------------------------------------------
(* Module constants of the program                                         *)

CHARSETS ==
    [lower |-> 26, upper |-> 26, digit |-> 10, symbol |-> 32, printable |-> 95]

WEAK_PASSWORDS ==
    {"123456", "password", "12345678", "qwerty", "abc123",
     "111111", "123123", "password1", "iloveyou", "admin"}

KEYBOARD_ROWS == <<"1234567890", "qwertyuiop", "asdfghjkl", "zxcvbnm">>

DEFAULT_DICT_SAMPLE ==
    <<"password", "qwerty", "dragon", "iloveyou", "monkey", "letmein",
      "football", "admin", "welcome", "login", "sunshine", "princess">>

DICEWARE_SAMPLE ==
    <<"alpha", "bravo", "charlie", "delta", "echo", "foxtrot", "golf", "hotel",
      "india", "juliet", "kilo", "lima", "mike", "november", "oscar", "papa">>

\* a plausible slip: the table without its last entry
LEET_MAP_without_plus ==
    <<<<"a", "4@">>, <<"e", "3">>, <<"i", "1!">>, <<"o", "0">>,
      <<"s", "$5">>, <<"t", "7">>>>

\* the dict literal in insertion order: <<plain, subs>>
LEET_MAP ==
    <<<<"a", "4@">>, <<"e", "3">>, <<"i", "1!">>, <<"o", "0">>,
      <<"s", "$5">>, <<"t", "7">>, <<"+", "t">>>>

---------------------------------------------------------------------------
(* detect_charset_size                                                     *)

\* a plausible slip: size * len(password) for size ** len(password)
detect_charset_size_product(pw) ==
    LET has_lower == \E c \in CharsOf(pw) : islower(c)
        has_upper == \E c \in CharsOf(pw) : isupper(c)
        has_digit == \E c \in CharsOf(pw) : isdigit(c)
        has_symbol == \E c \in CharsOf(pw) : ~isalnum(c)
        size0 == (IF has_lower THEN CHARSETS.lower ELSE 0)
                 + (IF has_upper THEN CHARSETS.upper ELSE 0)
                 + (IF has_digit THEN CHARSETS.digit ELSE 0)
                 + (IF has_symbol THEN CHARSETS.symbol ELSE 0)
        size == IF size0 = 0 THEN CHARSETS.printable ELSE size0
    IN [keyspace |-> BigMulSmall(BigOf(size), Len(pw)),
        size |-> size,
        flags |-> [lower |-> has_lower, upper |-> has_upper,
                   digit |-> has_digit, symbol |-> has_symbol]]

detect_charset_size(pw) ==
    LET has_lower == \E c \in CharsOf(pw) : islower(c)
        has_upper == \E c \in CharsOf(pw) : isupper(c)
        has_digit == \E c \in CharsOf(pw) : isdigit(c)
        has_symbol == \E c \in CharsOf(pw) : ~isalnum(c)
        size0 == (IF has_lower THEN CHARSETS.lower ELSE 0)
                 + (IF has_upper THEN CHARSETS.upper ELSE 0)
                 + (IF has_digit THEN CHARSETS.digit ELSE 0)
                 + (IF has_symbol THEN CHARSETS.symbol ELSE 0)
        size == IF size0 = 0 THEN CHARSETS.printable ELSE size0
    IN [keyspace |-> BigPow(size, Len(pw)),
        size |-> size,
        flags |-> [lower |-> has_lower, upper |-> has_upper,
                   digit |-> has_digit, symbol |-> has_symbol]]

---------------------------------------------------------------------------
(* Pattern detectors                                                       *)

\* a plausible slip: the last window of the universe left out
Windows_but_last(universe, n) ==
    { SubSeq(universe, i, i + n - 1) : i \in 1..(Len(universe) - n) }

Windows(universe, n) ==
    { SubSeq(universe, i, i + n - 1) : i \in 1..(Len(universe) - n + 1) }

\* list(set(findings)): the distinct windows found, as a set
find_sequences(pw, min_len) ==
    LET p == lower(pw)
        universes == <<ascii_lowercase, ascii_digits>> \o KEYBOARD_ROWS
        candidates == UNION { Windows(universes[k], min_len)
                              \cup Windows(Reverse(universes[k]), min_len)
                              : k \in 1..Len(universes) }
    IN { seq \in candidates : Contains(seq, p) }

\* scans the 4-character chunks left to right; int(chunk) raises ValueError
\* for a chunk that isdigit() accepts and int() does not
\* The loops that leave at the first position where something happens are
\* written as "the least position where it happens".
Least(S) == CHOOSE i \in S : \A j \in S : i <= j

\* the loop ends at the first 4-character chunk that isdigit() accepts and
\* that either int() rejects (ValueError) or that is a year in 1900..2099
looks_like_year(pw) ==
    LET chunk(i) == SubSeq(pw, i, i + 3)
        rejected(i) == \E c \in CharsOf(chunk(i)) : c \notin DecimalChars
        stops == { i \in 1..(Len(pw) - 3) :
                     /\ str_isdigit(chunk(i))
                     /\ \/ rejected(i)
                        \/ (1900 <= ParseDecimal(chunk(i)) /\ ParseDecimal(chunk(i)) <= 2099) }
    IN IF stops = {} THEN Returns(None)
       ELSE IF rejected(Least(stops)) THEN Raises("ValueError")
       ELSE Returns(Some(chunk(Least(stops))))

\* run_len at position i: the number of equal characters ending at i
RunLenAt(pw, i) ==
    LET breaks == { j \in 1..(i - 1) : SubSeq(pw, j, j) # SubSeq(pw, i, i)
                                        /\ \A k \in (j + 1)..i : SubSeq(pw, k, k) = SubSeq(pw, i, i) }
    IN IF breaks = {} THEN i ELSE i - (CHOOSE j \in breaks : TRUE)

\* the loop returns at the first position where run_len reaches min_run,
\* with run_char repeated run_len times
repeated_runs(pw, min_run) ==
    LET hits == { i \in 2..Len(pw) :
                    i >= min_run /\ \A k \in (i - min_run + 1)..i : SubSeq(pw, k, k) = SubSeq(pw, i, i) }
    IN IF hits = {} THEN None
       ELSE Some(Repeat(SubSeq(pw, Least(hits), Least(hits)), RunLenAt(pw, Least(hits))))

\* str.replace(ch, plain) for single characters
RECURSIVE replace(_, _, _)
replace(s, ch, plain) ==
    IF Len(s) = 0 THEN ""
    ELSE IF Len(s) = 1 THEN (IF s = ch THEN plain ELSE s)
    ELSE replace(SubSeq(s, 1, Len(s) \div 2), ch, plain)
         \o replace(SubSeq(s, Len(s) \div 2 + 1, Len(s)), ch, plain)

\* the nested loops of deleet: entry k of LEET_MAP, character j of its subs
RECURSIVE deleet_from(_, _, _)
deleet_from(out, k, j) ==
    IF k > Len(LEET_MAP) THEN out
    ELSE IF j > Len(LEET_MAP[k][2]) THEN deleet_from(out, k + 1, 1)
    ELSE deleet_from(replace(out, SubSeq(LEET_MAP[k][2], j, j), LEET_MAP[k][1]), k, j + 1)

deleet(s) == deleet_from(lower(s), 1, 1)

RECURSIVE alnum_lower(_)
alnum_lower(s) ==
    IF Len(s) = 0 THEN ""
    ELSE IF Len(s) = 1 THEN (IF isalnum(s) THEN lower(s) ELSE "")
    ELSE alnum_lower(SubSeq(s, 1, Len(s) \div 2))
         \o alnum_lower(SubSeq(s, Len(s) \div 2 + 1, Len(s)))

is_palindrome(s) ==
    LET filtered == alnum_lower(s)
    IN filtered = Reverse(filtered) /\ Len(filtered) >= 3

\* a plausible slip: the longest period for the shortest
repeated_substring_longest(s) ==
    LET periods == { l \in 1..(Len(s) \div 2) :
                       Len(s) % l = 0 /\ Repeat(SubSeq(s, 1, l), Len(s) \div l) = s }
    IN IF periods = {} THEN None
       ELSE Some(SubSeq(s, 1, CHOOSE l \in periods : \A j \in periods : j <= l))

repeated_substring(s) ==
    LET periods == { l \in 1..(Len(s) \div 2) :
                       Len(s) % l = 0 /\ Repeat(SubSeq(s, 1, l), Len(s) \div l) = s }
    IN IF periods = {} THEN None ELSE Some(SubSeq(s, 1, Least(periods)))

keyboard_walks(pw, min_len) ==
    LET p == lower(pw)
        candidates == UNION { Windows(KEYBOARD_ROWS[k], min_len)
                              \cup Windows(Reverse(KEYBOARD_ROWS[k]), min_len)
                              : k \in 1..Len(KEYBOARD_ROWS) }
    IN { seq \in candidates : Contains(seq, p) }

Note(kind, detail) == [kind |-> kind, detail |-> detail]

\* (penalties, notes); the ValueError of looks_like_year propagates
pattern_penalties(pw) ==
    LET seqs == find_sequences(pw, 3)
        yr == looks_like_year(pw)
        rep == repeated_runs(pw, 3)
        sub == repeated_substring(pw)
        pal == is_palindrome(pw)
        kw == keyboard_walks(pw, 4)
        dl == deleet(pw)
        common_hits == SelectSeq(DEFAULT_DICT_SAMPLE, LAMBDA w : Contains(w, dl))
        has_yr == yr.val # None /\ yr.val[1] # ""
        has_rep == rep # None /\ rep[1] # ""
        has_sub == sub # None /\ sub[1] # ""
    IN IF yr.exc # "" THEN Raises(yr.exc)
       ELSE Returns(
        [penalties |->
              (IF seqs # {} THEN 1 + Min(3, Cardinality(seqs) \div 2) ELSE 0)
            + (IF has_yr THEN 1 ELSE 0)
            + (IF has_rep THEN 1 ELSE 0)
            + (IF has_sub THEN 1 ELSE 0)
            + (IF pal THEN 1 ELSE 0)
            + (IF kw # {} THEN 1 ELSE 0)
            + (IF common_hits # <<>> THEN 1 ELSE 0),
         notes |->
               (IF seqs # {} THEN <<Note("Sequential patterns", seqs)>> ELSE <<>>)
            \o (IF has_yr THEN <<Note("Year-like", {yr.val[1]})>> ELSE <<>>)
            \o (IF has_rep THEN <<Note("Repeated chars", {rep[1]})>> ELSE <<>>)
            \o (IF has_sub THEN <<Note("Repeated substring", {sub[1]})>> ELSE <<>>)
            \o (IF pal THEN <<Note("Palindrome-like", {})>> ELSE <<>>)
            \o (IF kw # {} THEN <<Note("Keyboard walks", kw)>> ELSE <<>>)
            \o (IF common_hits # <<>>
                THEN <<Note("Common words after deleet",
                            { common_hits[k] : k \in 1..Len(common_hits) })>>
                ELSE <<>>)])

---------------------------------------------------------------------------
(* strength_score                                                          *)

TIP_LEN == "Increase length to at least 12 characters (passphrases are great)."
TIP_LOWER == "Add lowercase letters."
TIP_UPPER == "Add uppercase letters."
TIP_DIGIT == "Include digits."
TIP_SYMBOL == "Include special characters (!@#...)."
TIP_COMMON == "Avoid common or leaked passwords."

BoolInt(b) == IF b THEN 1 ELSE 0

\* the running total of strength_score before the final clamp, and the tips
score_and_tips(pw, pp) ==
    LET L == Len(pw)
        flags == detect_charset_size(pw).flags
        s1 == IF L >= 8 THEN 2 ELSE 0
        s2 == IF L >= 12 THEN s1 + 2 ELSE s1
        s3 == IF L >= 16 THEN s2 + 1 ELSE s2
        s4 == s3 + BoolInt(flags.lower) + BoolInt(flags.upper)
                 + BoolInt(flags.digit) + BoolInt(flags.symbol)
        s5 == IF lower(pw) \notin WEAK_PASSWORDS THEN s4 + 1 ELSE s4
    IN [score |-> s5 - pp.penalties,
        tips |->
               (IF L < 12 THEN <<Note(TIP_LEN, {})>> ELSE <<>>)
            \o (IF ~flags.lower THEN <<Note(TIP_LOWER, {})>> ELSE <<>>)
            \o (IF ~flags.upper THEN <<Note(TIP_UPPER, {})>> ELSE <<>>)
            \o (IF ~flags.digit THEN <<Note(TIP_DIGIT, {})>> ELSE <<>>)
            \o (IF ~flags.symbol THEN <<Note(TIP_SYMBOL, {})>> ELSE <<>>)
            \o pp.notes
            \o (IF lower(pw) \in WEAK_PASSWORDS THEN <<Note(TIP_COMMON, {})>> ELSE <<>>)]

\* a plausible slip: the lower clamp forgotten
strength_score_no_floor(pw) ==
    LET pp == pattern_penalties(pw)
    IN IF pp.exc # "" THEN Raises(pp.exc)
       ELSE LET st == score_and_tips(pw, pp.val)
            IN Returns([score |-> Min(10, st.score), tips |-> st.tips])

strength_score(pw) ==
    LET pp == pattern_penalties(pw)
    IN IF pp.exc # "" THEN Raises(pp.exc)
       ELSE LET st == score_and_tips(pw, pp.val)
            IN Returns([score |-> Max(0, Min(10, st.score)), tips |-> st.tips])

---------------------------------------------------------------------------
(* Python float                                                            *)
(* A finite float is the exact fraction num/den (num in limbs, den a small *)
(* positive integer, in lowest terms); Inf is the fraction with den = 0.   *)
(* Rounding to 53 bits is not modelled; the overflow threshold is.         *)

RECURSIVE SubRange(_, _, _, _, _)
SubRange(a, b, lo, hi, borrow) ==
    IF lo > hi \/ borrow < 0 THEN [limbs |-> <<>>, borrow |-> borrow]
    ELSE IF lo = hi
    THEN LET t == a[lo] - (IF lo <= Len(b) THEN b[lo] ELSE 0) - borrow
         IN [limbs |-> <<(t + Base) % Base>>, borrow |-> IF t < 0 THEN 1 ELSE 0]
    ELSE LET mid == (lo + hi) \div 2
             low == SubRange(a, b, lo, mid, borrow)
             high == SubRange(a, b, mid + 1, hi, low.borrow)
         IN [limbs |-> low.limbs \o high.limbs, borrow |-> high.borrow]

\* a - b for a >= b
BigSub(a, b) == Trim(SubRange(a, b, 1, Len(a), 0).limbs)

\* the least integer whose conversion to float overflows, 2^1024 - 2^970,
\* in limbs
FloatOverflowAt ==
    <<7792, 7449, 9041, 177, 4288, 930, 9508, 5969, 7115, 4342, 1070, 3655,
      8444, 7416, 7190, 5292, 3647, 8349, 9860, 1481, 8429, 9622, 6695, 5713,
      9855, 7006, 7302, 4475, 3176, 7115, 5817, 5484, 2738, 3676, 838, 7,
      8902, 8190, 8206, 1505, 8867, 6574, 2630, 4040, 8519, 5547, 4655, 9109,
      2887, 1669, 2864, 6330, 709, 5872, 7977, 4901, 9466, 4750, 9276, 9682,
      444, 7898, 1737, 6936, 3782, 7100, 4132, 7993, 4150, 5303, 7140, 7289,
      793, 3158, 4862, 9313, 7976, 1>>

RECURSIVE Gcd(_, _)
Gcd(a, b) == IF b = 0 THEN a ELSE Gcd(b, a % b)

Inf == [num |-> <<>>, den |-> 0]

Fraction(num, den) ==
    LET g == Gcd(den, BigDivMod(num, den).r)
    IN [num |-> BigDivMod(num, g).q, den |-> den \div g]

\* a finite result is kept, a result beyond the float range becomes inf
Rounded(f) ==
    IF BigGeq(f.num, BigMulSmall(FloatOverflowAt, f.den)) THEN Inf ELSE f

\* float(n) for an int n: raises OverflowError beyond the float range
float_of_int(n) ==
    IF BigGeq(n, FloatOverflowAt) THEN Raises("OverflowError")
    ELSE Returns([num |-> n, den |-> 1])

\* n / 2 for an int n (true division): raises OverflowError when the
\* quotient is beyond the float range
int_truediv_2(n) ==
    IF BigGeq(n, BigMulSmall(FloatOverflowAt, 2)) THEN Raises("OverflowError")
    ELSE Returns(Fraction(n, 2))

\* x / max(speed, 1e-30) for a float x: never raises, overflows to inf
div_by_speed(x, speed) ==
    IF x.den = 0 THEN Inf
    ELSE IF speed > 0
         THEN Rounded(Fraction(x.num, x.den * speed))
         ELSE Rounded(Fraction(
                  IF x.num = <<>> THEN <<>>
                  ELSE BigMulSmall(<<0, 0, 0, 0, 0, 0, 0>> \o x.num, 100), x.den))

\* the outcome classes of pretty_time
pretty_time(seconds) ==
    IF seconds.den = 0
       \/ ~BigGeq(BigMulSmall(BigPow(10000, 75), seconds.den), seconds.num)
    THEN "practically infinite"
    ELSE IF ~BigGeq(BigMulSmall(BigMulSmall(seconds.num, 1000), 1000), BigOf(seconds.den))
    THEN "0 sec"
    ELSE "duration"

---------------------------------------------------------------------------
(* Attack models                                                           *)

estimate_bruteforce_time(keyspace_size, speed, average) ==
    LET trials == IF average THEN int_truediv_2(keyspace_size)
                  ELSE float_of_int(keyspace_size)
    IN IF trials.exc # "" THEN Raises(trials.exc)
       ELSE Returns(div_by_speed(trials.val, speed))

MAX_WORDS == 500000

\* load_dictionary: None (no upload) gives the default sample, an upload
\* gives its stripped non-blank lines
load_dictionary(file) ==
    IF file = None THEN DEFAULT_DICT_SAMPLE
    ELSE LET lines == file[1]
             kept == SelectSeq(lines, LAMBDA w : strip(w) # "")
             words == [k \in 1..Len(kept) |-> strip(kept[k])]
         IN IF Len(words) > MAX_WORDS THEN SubSeq(words, 1, MAX_WORDS) ELSE words

SeqToSet(q) == { q[k] : k \in 1..Len(q) }

\* a plausible slip: the index of the last occurrence
list_index_last(q, x) ==
    (CHOOSE k \in 1..Len(q) : q[k] = x /\ \A j \in (k + 1)..Len(q) : q[j] # x) - 1

\* list.index: the 0-based index of the first occurrence
list_index(q, x) ==
    (CHOOSE k \in 1..Len(q) : q[k] = x /\ \A j \in 1..(k - 1) : q[j] # x) - 1

\* the orders in which iterating a set can visit its elements
RECURSIVE Orders(_)
Orders(S) ==
    IF S = {} THEN {<<>>}
    ELSE UNION { { <<x>> \o o : o \in Orders(S \ {x}) } : x \in S }

\* a plausible slip: the four-digit variant of the loop
DLENS_upto4 == <<1, 2, 3, 4>>

DLENS == <<1, 2, 3>>

RECURSIVE Pow10(_)
Pow10(n) == IF n = 0 THEN 1 ELSE 10 * Pow10(n - 1)

\* the inner loop over dlen for one word: attempts added and whether found
RECURSIVE digits_loop(_, _, _, _)
digits_loop(pw, w, k, attempts) ==
    IF k > Len(DLENS) THEN [attempts |-> attempts, found |-> FALSE]
    ELSE LET wc == capitalize(w)
             a == attempts + Pow10(DLENS[k])
             tail == SubSeq(pw, Len(w) + 1, Len(pw))
         IN IF (startswith(pw, w) \/ startswith(pw, wc))
               /\ str_isdigit(tail) /\ 1 <= Len(tail) /\ Len(tail) <= DLENS[k]
            THEN [attempts |-> a, found |-> TRUE]
            ELSE digits_loop(pw, w, k + 1, a)

\* the loop over dict_set, visited in the given order
RECURSIVE words_loop(_, _, _, _)
words_loop(pw, order, k, attempts) ==
    IF k > Len(order) THEN [attempts |-> attempts, found |-> FALSE]
    ELSE LET w == order[k]
         IN IF w = lower(pw) THEN [attempts |-> attempts + 1, found |-> TRUE]
            ELSE IF capitalize(w) = pw THEN [attempts |-> attempts + 2, found |-> TRUE]
            ELSE LET d == digits_loop(pw, w, 1, attempts + 2)
                 IN IF d.found THEN d ELSE words_loop(pw, order, k + 1, d.attempts)

dict_list_of(dict) ==
    LET kept == SelectSeq(dict, LAMBDA w : strip(w) # "")
    IN [k \in 1..Len(kept) |-> lower(strip(kept[k]))]

\* order: the iteration order of dict_set, one of Orders(dict_set)
estimate_dictionary_time(pw, dict, words_per_sec, order) ==
    LET pw_lower == lower(pw)
        dict_list == dict_list_of(dict)
        dict_set == SeqToSet(dict_list)
    IN IF pw_lower \in dict_set
       THEN [secs |-> div_by_speed([num |-> BigOf(list_index(dict_list, pw_lower) + 1), den |-> 1],
                                   words_per_sec),
             found |-> TRUE]
       ELSE LET r == words_loop(pw, order, 1, 0)
            IN [secs |-> div_by_speed([num |-> BigOf(r.attempts), den |-> 1], words_per_sec),
                found |-> r.found]

\* ks ** exponent is kept symbolic: eff = base ^ (tenths / 10)
estimate_hybrid_time(pw, dict, speed) ==
    LET pp == pattern_penalties(pw)
        ks0 == detect_charset_size(pw).keyspace
        ks == IF ks0 = <<>> THEN BigOne ELSE ks0
    IN IF pp.exc # "" THEN Raises(pp.exc)
       ELSE IF float_of_int(ks).exc # "" THEN Raises(float_of_int(ks).exc)
       ELSE Returns([base |-> ks,
                     tenths |-> IF pp.val.penalties >= 3 THEN 5
                                ELSE IF pp.val.penalties = 2 THEN 7 ELSE 9,
                     halved |-> TRUE,
                     speed |-> IF speed > 0 THEN speed ELSE 0])

---------------------------------------------------------------------------
(* Inputs                                                                  *)

PasswordChars == {"a", "b", "c", "A", "1", "!"}

RECURSIVE StringsOfLen(_, _)
StringsOfLen(C, n) ==
    IF n = 0 THEN {""}
    ELSE { c \o t : c \in C, t \in StringsOfLen(C, n - 1) }

ShortPasswords == UNION { StringsOfLen(PasswordChars, n) : n \in 0..MaxLen }

SamplePasswords ==
    {"Tr0ub4dor!", "password", "Password", "PASSWORD", "Password1", "admin", "ADMIN",
     "qwerty123", "p@ssw0rd", "abc2024", "1999", "111111", "abcabc", "racecar",
     "a b", " ", "¼¼", "²²²²", "1²34",
     "Xk9#mQ2$", "Gm7!xw2#Kd5%", "aaaAAA111!!!", "Xk9#mQ2$vL7!pR4&",
     "correcthorsebatterystaple"}

Passwords == ShortPasswords \cup SamplePasswords

NoCall == [fn |-> "", res |-> Returns(<<>>)]

\* session state after the first script run: only the history key is set
InitialSessionState ==
    [history |-> <<>>, last_password_raw |-> None, last_password_masked |-> None,
     generated_passphrase |-> None, gen_pass |-> None]

NothingRendered == [shown |-> "", pdf_for |-> None]

IdleRest ==
    /\ requests = <<>>
    /\ hibp_cache = {}
    /\ session_state = InitialSessionState
    /\ ui = NothingRendered

---------------------------------------------------------------------------
(* Specification of the scoring engine: one call per step on a fixed input *)

Init ==
    /\ password \in Passwords
    /\ dictionary = load_dictionary(None)
    /\ attempts_per_sec = 20000
    /\ ret = NoCall
    /\ IdleRest

StrengthScore ==
    /\ ret' = [fn |-> "strength_score", res |-> strength_score(password)]
    /\ UNCHANGED <<password, dictionary, attempts_per_sec, requests, hibp_cache,
                   session_state, ui>>

DetectCharsetSize ==
    /\ ret' = [fn |-> "detect_charset_size", res |-> Returns(detect_charset_size(password))]
    /\ UNCHANGED <<password, dictionary, attempts_per_sec, requests, hibp_cache,
                   session_state, ui>>

PatternPenalties ==
    /\ ret' = [fn |-> "pattern_penalties", res |-> pattern_penalties(password)]
    /\ UNCHANGED <<password, dictionary, attempts_per_sec, requests, hibp_cache,
                   session_state, ui>>

Next == StrengthScore \/ DetectCharsetSize \/ PatternPenalties

Spec == Init /\ [][Next]_vars

---------------------------------------------------------------------------
(* C1: strength_score                                                      *)

HasClass(pw, class) == \E i \in 1..Len(pw) : SubSeq(pw, i, i) \in class
Symbols(pw) == { c \in CharsOf(pw) : c \notin LowerChars \cup UpperChars \cup DecimalChars
                                                \cup SuperscriptDigits \cup CaselessAlnum }

length_bonus(pw) ==
    IF Len(pw) >= 16 THEN 5 ELSE IF Len(pw) >= 12 THEN 4 ELSE IF Len(pw) >= 8 THEN 2 ELSE 0
class_bonus(pw) ==
    Cardinality({ k \in 1..4 :
        \/ k = 1 /\ HasClass(pw, LowerChars)
        \/ k = 2 /\ HasClass(pw, UpperChars)
        \/ k = 3 /\ HasClass(pw, DecimalChars \cup SuperscriptDigits)
        \/ k = 4 /\ Symbols(pw) # {} })
uniqueness_bonus(pw) == IF lower(pw) \in WEAK_PASSWORDS THEN 0 ELSE 1
Clamp(x, lo, hi) == IF x < lo THEN lo ELSE IF x > hi THEN hi ELSE x

\* C1: for every password strength_score returns (does not raise) and its
\* score is clamp(length_bonus + class_bonus + uniqueness_bonus - penalties,
\* 0, 10), an integer in 0..10.
C1_ScoreIsClampedSum ==
    ret.fn = "strength_score" =>
        /\ ret.res.exc = ""
        /\ ret.res.val.score \in 0..10
        /\ pattern_penalties(password).exc = ""
        /\ ret.res.val.score =
              Clamp(length_bonus(password) + class_bonus(password)
                    + uniqueness_bonus(password)
                    - pattern_penalties(password).val.penalties, 0, 10)

\* The same formula on the calls that return: it holds, so the only
\* departure from C1 is the ValueError raised by looks_like_year.
ScoreIsClampedSumWhenReturned ==
    (ret.fn = "strength_score" /\ ret.res.exc = "") =>
        /\ ret.res.val.score \in 0..10
        /\ ret.res.val.score =
              Clamp(length_bonus(password) + class_bonus(password)
                    + uniqueness_bonus(password)
                    - pattern_penalties(password).val.penalties, 0, 10)

---------------------------------------------------------------------------
(* C2, C3: detect_charset_size                                             *)

\* dividing ks by size n times leaves no remainder and ends at 1
RECURSIVE IsExactPower(_, _, _)
IsExactPower(ks, size, n) ==
    IF n = 0 THEN ks = BigOne
    ELSE BigDivMod(ks, size).r = 0 /\ IsExactPower(BigDivMod(ks, size).q, size, n - 1)

\* C2: keyspace is exactly alphabet_size ** len(password); the empty
\* password gives (95, 1) and "Tr0ub4dor!" gives (94, 94^10 =
\* 53861511409489970176).
C2_KeyspaceIsExactPower ==
    ret.fn = "detect_charset_size" =>
        /\ ret.res.exc = ""
        /\ IsExactPower(ret.res.val.keyspace, ret.res.val.size, Len(password))
        /\ password = "" => ret.res.val.size = 95 /\ ret.res.val.keyspace = <<1>>
        /\ password = "Tr0ub4dor!" =>
              /\ ret.res.val.size = 94
              /\ ret.res.val.keyspace = <<176, 8997, 4094, 1511, 5386>>

C2_Witness ==
    /\ ret.fn = "detect_charset_size"
    /\ password = "Tr0ub4dor!"
    /\ Len(ret.res.val.keyspace) = 5

ClassSize == [lower |-> 26, upper |-> 26, digit |-> 10, symbol |-> 32]
ClassNames == {"lower", "upper", "digit", "symbol"}

PresentClasses(pw) ==
    { k \in ClassNames :
        \/ k = "lower" /\ HasClass(pw, LowerChars)
        \/ k = "upper" /\ HasClass(pw, UpperChars)
        \/ k = "digit" /\ HasClass(pw, DecimalChars \cup SuperscriptDigits)
        \/ k = "symbol" /\ Symbols(pw) # {} }

RECURSIVE SumSizes(_)
SumSizes(S) ==
    IF S = {} THEN 0
    ELSE LET k == CHOOSE x \in S : TRUE IN ClassSize[k] + SumSizes(S \ {k})

\* C3: alphabet_size is the sum of the class sizes 26/26/10/32 over the
\* classes present (a flag is the OR over the characters, symbol is "not
\* alphanumeric", so whitespace is a symbol), 95 exactly when no class is
\* present, and always positive.
C3_AlphabetSize ==
    ret.fn = "detect_charset_size" =>
        /\ \A k \in ClassNames : ret.res.val.flags[k] <=> (k \in PresentClasses(password))
        /\ PresentClasses(password) # {} =>
              ret.res.val.size = SumSizes(PresentClasses(password))
        /\ (ret.res.val.size = 95) <=> (PresentClasses(password) = {})
        /\ ret.res.val.size > 0

C3_Witness ==
    /\ ret.fn = "detect_charset_size"
    /\ password = "a b"
    /\ ret.res.val.size = 58

---------------------------------------------------------------------------
(* Specification of the attack estimators                                  *)

\* passwords whose keyspace is below and beyond the float range
AttackPasswords ==
    {"", "a", "abc1", "qwerty", "Tr0ub4dor!", "1999", "²²²²",
     Repeat("aB3$", 39), Repeat("aB3$", 40), Repeat("a", 218), Repeat("a", 219)}

\* sidebar number inputs hold floats; the model takes whole numbers
AttackSpeeds == {-5, 0, 1, 2, 1000}

\* uploads only: the 12 words of the default sample have 12! iteration orders
AttackFiles == {Some(<<>>), Some(<<"abc">>), Some(<<"abc", "", "qwerty", "Abc">>)}

InitAttack ==
    /\ password \in AttackPasswords
    /\ dictionary \in { load_dictionary(f) : f \in AttackFiles }
    /\ attempts_per_sec \in AttackSpeeds
    /\ ret = NoCall
    /\ IdleRest

EstimateBruteforceTime ==
    /\ \E average \in BOOLEAN :
          ret' = [fn |-> "estimate_bruteforce_time",
                  res |-> estimate_bruteforce_time(detect_charset_size(password).keyspace,
                                                   attempts_per_sec, average)]
    /\ UNCHANGED <<password, dictionary, attempts_per_sec, requests, hibp_cache,
                   session_state, ui>>

\* the iteration order of dict_set is not fixed by the language: it follows
\* the string hashes, which change with the interpreter's hash seed
EstimateDictionaryTime ==
    /\ \E order \in Orders(SeqToSet(dict_list_of(dictionary))) :
          ret' = [fn |-> "estimate_dictionary_time",
                  res |-> Returns(estimate_dictionary_time(password, dictionary,
                                                           attempts_per_sec, order))]
    /\ UNCHANGED <<password, dictionary, attempts_per_sec, requests, hibp_cache,
                   session_state, ui>>

EstimateHybridTime ==
    /\ ret' = [fn |-> "estimate_hybrid_time",
               res |-> estimate_hybrid_time(password, dictionary, attempts_per_sec)]
    /\ UNCHANGED <<password, dictionary, attempts_per_sec, requests, hibp_cache,
                   session_state, ui>>

NextAttack ==
    EstimateBruteforceTime \/ EstimateDictionaryTime \/ EstimateHybridTime
        \/ PatternPenalties

SpecAttack == InitAttack /\ [][NextAttack]_vars

\* C4: no estimator and no pattern detector ends in an error, whatever the
\* password length, word list and throughput; a keyspace beyond the float
\* range gives the "practically infinite" outcome.
C4_EstimatorsNeverRaise ==
    ret.fn \in {"estimate_bruteforce_time", "estimate_dictionary_time",
                "estimate_hybrid_time", "pattern_penalties"} =>
        /\ ret.res.exc = ""
        /\ ret.fn = "estimate_bruteforce_time" =>
              (BigGeq(detect_charset_size(password).keyspace, BigMulSmall(FloatOverflowAt, 2))
                  => pretty_time(ret.res.val) = "practically infinite")

---------------------------------------------------------------------------
(* Specification of the dictionary estimator on uploaded word lists        *)

DictLines == {"abc", "Abc", "xyz", " abc ", ""}

RECURSIVE SeqsOfLen(_, _)
SeqsOfLen(S, n) ==
    IF n = 0 THEN {<<>>}
    ELSE { <<x>> \o q : x \in S, q \in SeqsOfLen(S, n - 1) }

DictFiles == { Some(lines) : lines \in UNION { SeqsOfLen(DictLines, n) : n \in 0..MaxWords } }

DictPasswords ==
    {"", "ab", "abc", "Abc", "ABC", "abc1", "ABC1", "Abc12", "abc1234", "abc12a", "xyz", "xyz123"}

DictSpeeds == {0, 1, 2, 1000}

InitDict ==
    /\ password \in DictPasswords
    /\ dictionary \in { load_dictionary(f) : f \in DictFiles }
    /\ attempts_per_sec \in DictSpeeds
    /\ ret = NoCall
    /\ IdleRest

NextDict == EstimateDictionaryTime

SpecDict == InitDict /\ [][NextDict]_vars

IsDictCall == ret.fn = "estimate_dictionary_time"

\* C5: with a non-empty word list and a throughput > 0, a password equal
\* to wordlist[0] up to letter case gives hit = True and 1 / throughput.
C5_FirstWordCostsOneAttempt ==
    (/\ IsDictCall
     /\ dictionary # <<>>
     /\ attempts_per_sec > 0
     /\ lower(password) = lower(dictionary[1])) =>
        /\ ret.res.val.found
        /\ ret.res.val.secs = [num |-> <<1>>, den |-> attempts_per_sec]

C5_Witness ==
    /\ IsDictCall
    /\ password = "ABC"
    /\ Len(dictionary) = 3 /\ dictionary[1] = "abc" /\ dictionary[2] = "xyz"
    /\ attempts_per_sec = 2
    /\ ret.res.val.found

\* the distinct elements of a list in first-occurrence order
Dedup(q) == SelectSeq([k \in 1..Len(q) |-> [w |-> q[k], first |-> \A j \in 1..(k - 1) : q[j] # q[k]]],
                      LAMBDA e : e.first)

PositionIn(q, x) == CHOOSE k \in 1..Len(q) : q[k].w = x

\* C6: an exact match of the case-folded password costs k / throughput,
\* k being the 1-based position of the word in the deduplicated word list.
C6_ExactMatchCostsDedupPosition ==
    (IsDictCall /\ lower(password) \in SeqToSet(dict_list_of(dictionary))) =>
        /\ ret.res.val.found
        /\ ret.res.val.secs =
              div_by_speed([num |-> BigOf(PositionIn(Dedup(dict_list_of(dictionary)),
                                                     lower(password))),
                            den |-> 1], attempts_per_sec)

\* C7: two evaluations of estimate_dictionary_time on the same inputs
\* return the same (seconds, hit).
C7_SameInputsSameResult ==
    [][(IsDictCall /\ ret'.fn = "estimate_dictionary_time") => ret' = ret]_vars

---------------------------------------------------------------------------
(* HIBP breach lookup                                                      *)

\* str.upper()
RECURSIVE upper(_)
upper(s) ==
    IF Len(s) = 0 THEN ""
    ELSE IF Len(s) = 1 THEN (IF s \in LowerChars THEN UpperOf[s] ELSE s)
    ELSE upper(SubSeq(s, 1, Len(s) \div 2)) \o upper(SubSeq(s, Len(s) \div 2 + 1, Len(s)))

\* str.split(sep) for a one-character separator: the pieces between the
\* occurrences of sep, len(pieces) = occurrences + 1
split(s, sep) ==
    LET cuts == { i \in 1..Len(s) : SubSeq(s, i, i) = sep }
        n == Cardinality(cuts)
        cut(k) == IF k = 0 THEN 0
                  ELSE IF k = n + 1 THEN Len(s) + 1
                  ELSE CHOOSE i \in cuts : Cardinality({ j \in cuts : j < i }) = k - 1
    IN [k \in 1..(n + 1) |-> SubSeq(s, cut(k - 1) + 1, cut(k) - 1)]

\* str.splitlines(): lines end at "\n", "\r\n" or "\r"; the line ends are
\* dropped and a text that ends with a line end has no empty last line
splitlines(text) ==
    LET at(i) == SubSeq(text, i, i)
        \* last character of each line end
        ends == { i \in 1..Len(text) :
                    \/ at(i) = "\n"
                    \/ at(i) = "\r" /\ ~(i < Len(text) /\ at(i + 1) = "\n") }
        n == Cardinality(ends)
        end(k) == IF k = 0 THEN 0
                  ELSE CHOOSE i \in ends : Cardinality({ j \in ends : j < i }) = k - 1
        first(k) == IF at(end(k)) = "\n" /\ end(k) > 1 /\ at(end(k) - 1) = "\r"
                    THEN end(k) - 1 ELSE end(k)
        closed == [k \in 1..n |-> SubSeq(text, end(k - 1) + 1, first(k) - 1)]
    IN IF end(n) < Len(text)
       THEN Append(closed, SubSeq(text, end(n) + 1, Len(text)))
       ELSE closed

\* int(s) for a string: surrounding blanks and one sign are accepted, the
\* rest must be decimal digits, anything else raises ValueError
int_of_str(s) ==
    LET t == strip(s)
        signed == t # "" /\ SubSeq(t, 1, 1) \in {"+", "-"}
        digits == IF signed THEN SubSeq(t, 2, Len(t)) ELSE t
    IN IF digits # "" /\ CharsOf(digits) \subseteq DecimalChars
       THEN Returns(IF signed /\ SubSeq(t, 1, 1) = "-" THEN 0 - ParseDecimal(digits)
                    ELSE ParseDecimal(digits))
       ELSE Raises("ValueError")

\* hashlib.sha1(password.encode("utf-8")).hexdigest(), tabulated for the
\* passwords of the model
sha1_hexdigest(pw) ==
    CASE pw = "password136"  -> "bd30b559bd9a84c988f99a2b3b05f4980e6d06cd"
      [] pw = "password1818" -> "bd30b4e206823991de29a0c764e7f6ca6d98a890"
      [] pw = "F1025"        -> "f10254e82c4c792557052ad91a423919702190da"
      [] pw = "abc"          -> "a9993e364706816aba3e25717850c26c9cd0d89d"

HIBP_RANGE_URL == "https://api.pwnedpasswords.com/range/"
HIBP_HEADERS == [Add_Padding |-> "true", User_Agent |-> "AdvancedPasswordLab/1.0"]
HIBP_TIMEOUT == 6

\* a plausible slip: a miss reported as "unknown" instead of 0
hibp_scan_unknown_on_miss(lines, suffix) ==
    LET parts(k) == split(strip(lines[k]), ":")
        hits == { k \in 1..Len(lines) : Len(parts(k)) = 2 /\ parts(k)[1] = suffix }
    IN IF hits = {} THEN Returns(None)
       ELSE LET count == int_of_str(parts(Least(hits))[2])
            IN IF count.exc = "" THEN Returns(Some(count.val)) ELSE count

\* the loop over r.text.splitlines(): it returns at the first line that has
\* two parts and whose first part is the suffix, int() may raise there
hibp_scan(lines, suffix) ==
    LET parts(k) == split(strip(lines[k]), ":")
        hits == { k \in 1..Len(lines) : Len(parts(k)) = 2 /\ parts(k)[1] = suffix }
    IN IF hits = {} THEN Returns(Some(0))
       ELSE LET count == int_of_str(parts(Least(hits))[2])
            IN IF count.exc = "" THEN Returns(Some(count.val)) ELSE count

\* a plausible slip: the whole digest in the URL
hibp_breach_count_full_hash(pw, reply) ==
    IF pw = "" THEN [res |-> Returns(None), sent |-> <<>>]
    ELSE LET sha1 == upper(sha1_hexdigest(pw))
             prefix == SubSeq(sha1, 1, 5)
             suffix == SubSeq(sha1, 6, Len(sha1))
             url == HIBP_RANGE_URL \o sha1
             request == [url |-> url, headers |-> HIBP_HEADERS, timeout |-> HIBP_TIMEOUT]
             tried == IF reply.raised # "" THEN Raises(reply.raised)
                      ELSE IF reply.status_code # 200 THEN Returns(None)
                      ELSE hibp_scan(splitlines(reply.text), suffix)
         IN [res |-> IF tried.exc # "" THEN Returns(None) ELSE tried,
             sent |-> <<request>>]

\* the body of hibp_breach_count for the reply the service gives to its
\* request: what it returns or raises and the requests it sends
hibp_breach_count(pw, reply) ==
    IF pw = "" THEN [res |-> Returns(None), sent |-> <<>>]
    ELSE LET sha1 == upper(sha1_hexdigest(pw))
             prefix == SubSeq(sha1, 1, 5)
             suffix == SubSeq(sha1, 6, Len(sha1))
             url == HIBP_RANGE_URL \o prefix
             request == [url |-> url, headers |-> HIBP_HEADERS, timeout |-> HIBP_TIMEOUT]
             tried == IF reply.raised # "" THEN Raises(reply.raised)
                      ELSE IF reply.status_code # 200 THEN Returns(None)
                      ELSE hibp_scan(splitlines(reply.text), suffix)
         IN [res |-> IF tried.exc # "" THEN Returns(None) ELSE tried,
             sent |-> <<request>>]

\* st.cache_data: a stored result for the same argument is returned without
\* running the body, otherwise the body runs and its result is stored
cache_data(cache, pw, reply) ==
    LET stored == { e \in cache : e.key = pw }
        call == hibp_breach_count(pw, reply)
    IN IF stored # {}
       THEN [res |-> (CHOOSE e \in stored : TRUE).value, sent |-> <<>>, cached |-> TRUE,
             cache |-> cache]
       ELSE [res |-> call.res, sent |-> call.sent, cached |-> FALSE,
             cache |-> cache \cup {[key |-> pw, value |-> call.res]}]

---------------------------------------------------------------------------
(* Specification of the breach lookup                                      *)

\* "password136" and "password1818" share the digest prefix BD30B; the
\* digest of "F1025" starts with F1025
HibpPasswords == {"", "password136", "password1818", "F1025"}

NoReply == [raised |-> "", status_code |-> 0, text |-> ""]

OtherSuffix == SubSeq(upper(sha1_hexdigest("abc")), 6, 40)

\* range responses for a password: its own suffix present, absent, in a
\* line that is not "suffix:count", in lower case
Bodies(pw) ==
    LET suffix == SubSeq(upper(sha1_hexdigest(pw)), 6, 40)
    IN { "",
         OtherSuffix \o ":5",
         OtherSuffix \o ":5\r\n" \o suffix \o ":3\r\n",
         " " \o suffix \o ":7 \n" \o suffix \o ":3",
         suffix \o ":x",
         suffix \o ":3:1",
         lower(suffix) \o ":4" }

Replies(pw) ==
    IF pw = "" THEN {NoReply}
    ELSE { [raised |-> "Timeout", status_code |-> 0, text |-> ""] }
         \cup { [raised |-> "", status_code |-> 503, text |-> OtherSuffix \o ":5\r\n"
                                   \o SubSeq(upper(sha1_hexdigest(pw)), 6, 40) \o ":3\r\n"] }
         \cup { [raised |-> "", status_code |-> 200, text |-> b] : b \in Bodies(pw) }

InitHibp ==
    /\ password = ""
    /\ dictionary = load_dictionary(None)
    /\ attempts_per_sec = 20000
    /\ ret = NoCall
    /\ IdleRest

\* one call of hibp_breach_count; ret also records whether the result came
\* from the cache, how many requests the call sent and the reply it got
HibpBreachCount ==
    /\ Len(requests) < MaxCalls
    /\ \E pw \in HibpPasswords :
         \E reply \in Replies(pw) :
            LET call == cache_data(hibp_cache, pw, reply)
            IN /\ password' = pw
               /\ ret' = [fn |-> "hibp_breach_count", res |-> call.res,
                          cached |-> call.cached, sent |-> Len(call.sent),
                          reply |-> IF call.sent = <<>> THEN NoReply ELSE reply]
               /\ requests' = requests \o
                                [k \in 1..Len(call.sent) |-> [arg |-> pw, request |-> call.sent[k]]]
               /\ hibp_cache' = call.cache
    /\ UNCHANGED <<dictionary, attempts_per_sec, session_state, ui>>

\* ttl = 60*30: a stored result is dropped once it is 30 minutes old
CacheExpires ==
    /\ \E e \in hibp_cache : hibp_cache' = hibp_cache \ {e}
    /\ UNCHANGED <<password, dictionary, attempts_per_sec, ret, requests, session_state, ui>>

NextHibp == HibpBreachCount \/ CacheExpires

SpecHibp == InitHibp /\ [][NextHibp]_vars

IsHibpCall == ret.fn = "hibp_breach_count"

Sha1Upper(pw) == upper(sha1_hexdigest(pw))

\* the texts a request carries: its URL and its header values
RequestTexts(request) ==
    {request.url, request.headers.Add_Padding, request.headers.User_Agent}

\* C8: every request sent by hibp_breach_count carries exactly the first 5
\* hex characters of the SHA-1 digest of the password and nothing else
\* that depends on the password: the URL is the range URL followed by these
\* 5 characters, the headers are constants, neither the 35-character
\* suffix nor the full digest occurs in it, a password longer than the
\* prefix does not occur in it, and two passwords with the same prefix send
\* the same request.
C8_OnlyTheHashPrefixIsSent ==
    \A i \in DOMAIN requests :
        LET arg == requests[i].arg
            request == requests[i].request
            digest == Sha1Upper(arg)
        IN /\ Len(digest) = 40
           /\ request.url = "https://api.pwnedpasswords.com/range/" \o SubSeq(digest, 1, 5)
           /\ request.headers = [Add_Padding |-> "true", User_Agent |-> "AdvancedPasswordLab/1.0"]
           /\ DOMAIN request = {"url", "headers", "timeout"}
           /\ request.timeout = 6
           /\ \A t \in RequestTexts(request) :
                 /\ ~Contains(SubSeq(digest, 6, 40), t)
                 /\ ~Contains(digest, t)
                 /\ ~Contains(lower(SubSeq(digest, 6, 40)), t)
                 /\ ~Contains(lower(digest), t)
                 /\ Len(arg) > 5 => ~Contains(arg, t)
           /\ \A j \in DOMAIN requests :
                 SubSeq(Sha1Upper(requests[j].arg), 1, 5) = SubSeq(digest, 1, 5)
                     => requests[j].request = request

\* two passwords with the same prefix and different suffixes have sent
\* their requests, and the second got its count
C8_Witness ==
    /\ Len(requests) = 2
    /\ requests[1].arg = "password136"
    /\ requests[2].arg = "password1818"
    /\ IsHibpCall /\ password = "password1818" /\ ret.res = Returns(Some(3))

\* the lines of a range response that read "suffix:count"
CountsFor(text, suffix) ==
    LET lines == splitlines(text)
        key == suffix \o ":"
        reads(k) == /\ startswith(strip(lines[k]), key)
                    /\ ~Contains(":", SubSeq(strip(lines[k]), Len(key) + 1, Len(strip(lines[k]))))
    IN SelectSeq([k \in 1..Len(lines) |->
                     [hit |-> reads(k),
                      count |-> SubSeq(strip(lines[k]), Len(key) + 1, Len(strip(lines[k])))]],
                 LAMBDA l : l.hit)

\* what a call that runs its request has to return for a reply
Expected(pw, reply) ==
    IF reply.raised # "" \/ reply.status_code # 200 THEN None
    ELSE LET counts == CountsFor(reply.text, SubSeq(Sha1Upper(pw), 6, 40))
         IN IF counts = <<>> THEN Some(0)
            ELSE IF str_isdigit(counts[1].count) /\ CharsOf(counts[1].count) \subseteq DecimalChars
                 THEN Some(ParseDecimal(counts[1].count))
                 ELSE None

ReturnsAsClaimed ==
    /\ ret.res.exc = ""
    /\ password = "" => ret.res.val = None
    /\ (password # "" /\ ~ret.cached) => ret.res.val = Expected(password, ret.reply)
    /\ ret.cached => \E reply \in Replies(password) :
                         ret.res.val = Expected(password, reply)

\* C9: hibp_breach_count never raises: it returns None for the empty
\* password, for a non-200 response and for a transport or parsing
\* exception, on a 200 response the count of the matching line and 0 when
\* no line matches; every call sends exactly one request.
C9_NeverRaisesOneRequestPerCall ==
    IsHibpCall => (ReturnsAsClaimed /\ ret.sent = 1)

\* C9 as the code has it: the same results, and every call sends at most
\* one request: none for the empty password and none when the result is
\* served from the cache (stored for 30 minutes, None included), exactly one
\* otherwise, with no retry.
C9_NeverRaisesAtMostOneRequestPerCall ==
    IsHibpCall =>
        /\ ReturnsAsClaimed
        /\ ret.sent = IF password = "" \/ ret.cached THEN 0 ELSE 1

\* a second call for the same password is served from the cache: one
\* request in all
C9_Witness ==
    /\ IsHibpCall /\ ret.cached /\ ret.sent = 0
    /\ password = "password136"
    /\ ret.res = Returns(Some(7))
    /\ Len(requests) = 1

---------------------------------------------------------------------------
(* Streamlit session: every user event runs the whole script once          *)

\* the one-character ellipsis U+2026, written here with three dots
ELLIPSIS == "..."

\* ('*'*min(8,len(pw))) + (ellipsis if len(pw)>8 else '')
masked(pw) == Repeat("*", Min(8, Len(pw))) \o (IF Len(pw) > 8 THEN ELLIPSIS ELSE "")

HISTORY_CAP == 25

\* a plausible slip: the slice keeps the tail of the list
add_to_history_keeps_tail(history, entry) ==
    LET grown == <<entry>> \o history
    IN IF Len(grown) > HISTORY_CAP
       THEN SubSeq(grown, Len(grown) - HISTORY_CAP + 1, Len(grown)) ELSE grown

add_to_history(history, entry) ==
    LET grown == <<entry>> \o history
    IN IF Len(grown) > HISTORY_CAP THEN SubSeq(grown, 1, HISTORY_CAP) ELSE grown

\* separator.join(words)
RECURSIVE join(_, _)
join(separator, words) ==
    IF words = <<>> THEN ""
    ELSE IF Len(words) = 1 THEN words[1]
    ELSE words[1] \o separator \o join(separator, Tail(words))

\* generate_passphrase: drawn holds the num_words results of random.choice
generate_passphrase(separator, drawn) == join(separator, drawn)

\* the result of the first call, or the first exception raised in the
\* sequence of calls
first_raise(results) ==
    LET raised == { k \in 1..Len(results) : results[k].exc # "" }
    IN IF raised = {} THEN results[1] ELSE Raises(results[Least(raised)].exc)

\* the engine calls of the analyze tab in script order, up to the first
\* one that raises: the score, or the exception that ends the script run
analysis(pw, dict, speed) ==
    first_raise(<<strength_score(pw),
                  estimate_bruteforce_time(detect_charset_size(pw).keyspace, speed, TRUE),
                  estimate_bruteforce_time(detect_charset_size(pw).keyspace, speed, FALSE),
                  estimate_hybrid_time(pw, dict, speed)>>)

\* the texts of the password box
UiPasswords == {"", "abc", "Tr0ub4dor!", "²²²²"}

\* the generator's draws: three words (the least the slider allows), taken
\* among the first two of the sample, joined by "-"
DrawnWords == {DICEWARE_SAMPLE[1], DICEWARE_SAMPLE[2]}
NUM_WORDS == 3
Separators == {"-"}
Phrases == { generate_passphrase(sep, drawn) :
                sep \in Separators, drawn \in SeqsOfLen(DrawnWords, NUM_WORDS) }

\* the sidebar inputs of the session: no upload, default speed
SESSION_DICTIONARY == load_dictionary(None)
SESSION_SPEED == 20000

\* the analysis of every text a session can hold, under the sidebar inputs
Analyses ==
    [pw \in UiPasswords \cup Phrases |-> analysis(pw, SESSION_DICTIONARY, SESSION_SPEED)]

\* the analyze tab: the raw and the masked password are stored before the
\* engine runs; the save button adds an entry when the script gets there
analyze_tab(ss, pw, click, result) ==
    IF pw = "" THEN ss
    ELSE LET \* online_check, the breach check box of the sidebar, is unticked in
             \* the sessions modelled here: a script run sends no request
             breached_count == None
             entry == [masked |-> masked(pw),
                       score |-> result.val.score,
                       breached |-> IF breached_count # None THEN breached_count
                                    ELSE <<"n/a">>]
         IN [ss EXCEPT !.last_password_raw = Some(pw),
                       !.last_password_masked = Some(masked(pw)),
                       !.history = IF result.exc = "" /\ click = "save_to_history"
                                   THEN add_to_history(@, entry) ELSE @]

\* the generate button of the visuals tab
generate_pass(ss, click, phrase) ==
    IF click = "generate_pass"
    THEN [ss EXCEPT !.generated_passphrase = Some(phrase),
                    !.last_password_raw = Some(phrase),
                    !.last_password_masked = Some(masked(phrase))]
    ELSE ss

\* the disabled text input with key gen_pass. widget says what the
\* framework does with the state of this widget, which differs between its
\* versions: "kept" leaves the stored value when the value argument changes
\* or when the widget is not rendered, "reset" takes the new value argument
\* and drops the state of a widget that is not rendered.
gen_pass_widget(ss, widget) ==
    IF ss.generated_passphrase # None
    THEN [ss EXCEPT !.gen_pass = IF @ = None \/ widget = "reset"
                                 THEN ss.generated_passphrase ELSE @]
    ELSE ss

gen_pass_not_rendered(ss, widget) ==
    [ss EXCEPT !.gen_pass = IF widget = "reset" THEN None ELSE @]

\* the clear button, rendered under a non-empty history
clear_history(ss, click) ==
    IF click = "clear_history" /\ ss.history # <<>> THEN [ss EXCEPT !.history = <<>>] ELSE ss

\* the password the PDF button reports on
pdf_password(ss) ==
    IF ss.gen_pass # None /\ ss.gen_pass # Some("") THEN ss.gen_pass
    ELSE ss.last_password_raw

\* what the export section shows for a click on the PDF button
generate_pdf(pw, engine) ==
    IF pw = None \/ pw = Some("") THEN [shown |-> "no_pass_for_pdf", pdf_for |-> None]
    ELSE IF engine[pw[1]].exc # "" THEN [shown |-> engine[pw[1]].exc, pdf_for |-> None]
    ELSE [shown |-> "download_pdf", pdf_for |-> pw]

\* One run of the script with the text pw in the password box and the
\* button click pressed ("" when the run follows a change of the text).
\* phrase is the passphrase the generator draws in this run, engine gives
\* the analysis of a text. An exception of the engine ends the run inside
\* the analyze tab.
script_run(ss, pw, click, phrase, widget, engine) ==
    IF pw # "" /\ engine[pw].exc # ""
    THEN [session_state |-> gen_pass_not_rendered(analyze_tab(ss, pw, click, engine[pw]), widget),
          ui |-> [shown |-> engine[pw].exc, pdf_for |-> None]]
    ELSE [session_state |->
              clear_history(gen_pass_widget(generate_pass(analyze_tab(ss, pw, click, engine[pw]),
                                                          click, phrase), widget), click),
          ui |-> IF click = "generate_pdf"
                 THEN generate_pdf(pdf_password(gen_pass_widget(
                                       analyze_tab(ss, pw, click, engine[pw]), widget)), engine)
                 ELSE [shown |-> IF click = "save_to_history" THEN "saved_history"
                                 ELSE IF pw = "" THEN "type_password" ELSE "analysis",
                       pdf_for |-> None]]

---------------------------------------------------------------------------
(* Specification of the session                                            *)

WidgetBehaviours == {"kept", "reset"}

InitUI ==
    /\ password = ""
    /\ dictionary = SESSION_DICTIONARY
    /\ attempts_per_sec = SESSION_SPEED
    /\ ret = NoCall
    /\ IdleRest

\* the last script run got to the widgets below the analysis
Rendered == ui.shown \notin {"ValueError", "OverflowError"}

Run(pw, click, phrase, widget) ==
    \E engine \in {Analyses} :
       /\ password' = pw
       /\ session_state' = script_run(session_state, pw, click, phrase, widget, engine).session_state
       /\ ui' = script_run(session_state, pw, click, phrase, widget, engine).ui
       /\ UNCHANGED <<dictionary, attempts_per_sec, ret, requests, hibp_cache>>

\* the user types a password (or empties the box)
AnalyzePassword ==
    \E pw \in UiPasswords, widget \in WidgetBehaviours : Run(pw, "", "", widget)

SaveToHistory ==
    /\ password # "" /\ Rendered
    /\ Len(session_state.history) < MaxSaves
    /\ \E widget \in WidgetBehaviours : Run(password, "save_to_history", "", widget)

GeneratePass ==
    /\ Rendered
    /\ \E phrase \in Phrases, widget \in WidgetBehaviours :
          Run(password, "generate_pass", phrase, widget)

ClearHistory ==
    /\ Rendered
    /\ session_state.history # <<>>
    /\ \E widget \in WidgetBehaviours : Run(password, "clear_history", "", widget)

GeneratePdf ==
    /\ Rendered
    /\ \E widget \in WidgetBehaviours : Run(password, "generate_pdf", "", widget)

NextUI == AnalyzePassword \/ SaveToHistory \/ GeneratePass \/ ClearHistory \/ GeneratePdf

SpecUI == InitUI /\ [][NextUI]_vars

\* at most 8 asterisks, then possibly the ellipsis
IsMasked(s) ==
    \E n \in 0..8 : s = Repeat("*", n) \/ s = Repeat("*", n) \o ELLIPSIS

\* C10: after any sequence of UI operations no stored session state holds
\* the plaintext of the analysed password (the text of the password box);
\* only its masked form, at most 8 asterisks plus an ellipsis, is kept.
C10_RawPasswordNeverStored ==
    password # "" =>
        /\ Some(password) \notin { session_state.last_password_raw,
                                    session_state.last_password_masked,
                                    session_state.generated_passphrase,
                                    session_state.gen_pass }
        /\ \A k \in DOMAIN session_state.history :
              /\ session_state.history[k].masked # password
              /\ IsMasked(session_state.history[k].masked)
        /\ session_state.last_password_masked # None
              => IsMasked(session_state.last_password_masked[1])

\* What does hold: the history keeps masked forms only.
HistoryHoldsMaskedFormsOnly ==
    \A k \in DOMAIN session_state.history :
        /\ IsMasked(session_state.history[k].masked)
        /\ session_state.history[k].masked \notin UiPasswords \cup Phrases

---------------------------------------------------------------------------
(* Specification of rescoring: the user replaces the password by another   *)
(* one and strength_score runs on it                                       *)

ScorePasswords == Passwords \cup {"dragon12", "password1"}

InitScores ==
    /\ password = ""
    /\ dictionary = load_dictionary(None)
    /\ attempts_per_sec = 20000
    /\ ret = [fn |-> "strength_score", res |-> strength_score("")]
    /\ IdleRest

Rescore ==
    /\ \E q \in ScorePasswords :
          /\ password' = q
          /\ ret' = [fn |-> "strength_score", res |-> strength_score(q)]
    /\ UNCHANGED <<dictionary, attempts_per_sec, requests, hibp_cache, session_state, ui>>

NextScores == Rescore

SpecScores == InitScores /\ [][NextScores]_vars

PenaltyTotal(pw) == pattern_penalties(pw).val.penalties

\* C11: for passwords p and q that both get a score, q longer than p, with
\* the same character classes present and a pattern penalty total not
\* greater than that of p, score(q) >= score(p).
C11_ScoreMonotoneInLength ==
    [][(/\ ret.res.exc = "" /\ ret'.res.exc = ""
        /\ Len(password') > Len(password)
        /\ PresentClasses(password') = PresentClasses(password)
        /\ PenaltyTotal(password') <= PenaltyTotal(password))
           => ret'.res.val.score >= ret.res.val.score]_vars

\* C11 with the weak-password list taken into account: it holds when q is
\* on the list only if p is.
ScoreMonotoneUnlessNewlyWeak ==
    [][(/\ ret.res.exc = "" /\ ret'.res.exc = ""
        /\ Len(password') > Len(password)
        /\ PresentClasses(password') = PresentClasses(password)
        /\ PenaltyTotal(password') <= PenaltyTotal(password)
        /\ (lower(password') \in WEAK_PASSWORDS => lower(password) \in WEAK_PASSWORDS))
           => ret'.res.val.score >= ret.res.val.score]_vars


---------------------------------------------------------------------------
(* The tips of the analyze tab                                             *)

\* the keys of tips_map
TIPS_MAP == {TIP_LEN, TIP_LOWER, TIP_UPPER, TIP_DIGIT, TIP_SYMBOL, TIP_COMMON}

\* the tips that are keys of tips_map are written, one line each; the
\* "looks strong" message is shown when no line was written
tips_rendering(tips_en) ==
    [written |-> SelectSeq(tips_en, LAMBDA t : t \in { Note(k, {}) : k \in TIPS_MAP }),
     looks_strong |-> \A k \in 1..Len(tips_en) : tips_en[k] \notin { Note(t, {}) : t \in TIPS_MAP }]

\* what the analyze tab shows for a password: the prompt for an empty box,
\* the exception that ended the script run, or the tips
tips_section(pw, engine) ==
    IF pw = "" THEN [shown |-> "type_password", written |-> <<>>, looks_strong |-> FALSE]
    ELSE IF engine.exc # "" THEN [shown |-> engine.exc, written |-> <<>>, looks_strong |-> FALSE]
    ELSE [shown |-> "analysis",
          written |-> tips_rendering(engine.val.tips).written,
          looks_strong |-> tips_rendering(engine.val.tips).looks_strong]

InitTips ==
    /\ password = ""
    /\ dictionary = load_dictionary(None)
    /\ attempts_per_sec = 20000
    /\ ret = NoCall
    /\ requests = <<>>
    /\ hibp_cache = {}
    /\ session_state = InitialSessionState
    /\ ui = tips_section("", NoCall.res)

\* the analysis of every password under the sidebar inputs of InitTips
TipsAnalyses ==
    [pw \in Passwords |-> analysis(pw, load_dictionary(None), 20000)]

\* the user types a password: the script runs the engine and renders the tips
ShowTips ==
    \E engine \in {TipsAnalyses} :
      \E pw \in Passwords :
        /\ password' = pw
        /\ ret' = IF pw = "" THEN NoCall ELSE [fn |-> "strength_score", res |-> engine[pw]]
        /\ ui' = tips_section(pw, engine[pw])
        /\ UNCHANGED <<dictionary, attempts_per_sec, requests, hibp_cache, session_state>>

NextTips == ShowTips

SpecTips == InitTips /\ [][NextTips]_vars

\* the tips strength_score produced for the password on screen
TipsProduced == ret.res.val.tips

\* the pattern findings of the password on screen
PatternFindings == pattern_penalties(password).val.notes

\* C12: whenever the analysis of a password is on screen, the "looks strong"
\* message is shown if and only if strength_score produced no tip for it
\* (length, missing class, weak list, pattern findings), and it is never
\* shown for a password that has a pattern finding
C12_LooksStrongIffNoTips ==
    ui.shown = "analysis" =>
        /\ ui.looks_strong <=> TipsProduced = <<>>
        /\ PatternFindings # <<>> => ~ui.looks_strong

\* what the rendering does: the message is shown if and only if none of the
\* six fixed tips is among the tips produced; pattern findings do not count
LooksStrongIffNoFixedTip ==
    ui.shown = "analysis" =>
        (ui.looks_strong <=>
            \A k \in 1..Len(TipsProduced) : TipsProduced[k].kind \notin TIPS_MAP)


---------------------------------------------------------------------------
(* Specification of the history list: additions and clearings in any order *)

\* the number of additions of one session
MaxAdds == 27

\* the entry of the n-th addition of the session; its other fields play no
\* part in add_to_history
HistoryEntry(n) == [time |-> n]

InitHistory ==
    /\ password = ""
    /\ dictionary = load_dictionary(None)
    /\ attempts_per_sec = 20000
    /\ ret = [fn |-> "", res |-> Returns(None), added |-> 0]
    /\ IdleRest

AddToHistory ==
    /\ ret.added < MaxAdds
    /\ session_state' =
          [session_state EXCEPT
              !.history = add_to_history(@, HistoryEntry(ret.added + 1))]
    /\ ret' = [fn |-> "add_to_history", res |-> Returns(None), added |-> ret.added + 1]
    /\ UNCHANGED <<password, dictionary, attempts_per_sec, requests, hibp_cache, ui>>

\* the clear button, rendered under a non-empty history
ClearHistoryList ==
    /\ session_state.history # <<>>
    /\ session_state' = clear_history(session_state, "clear_history")
    /\ ret' = [fn |-> "clear_history", res |-> Returns(None), added |-> ret.added]
    /\ UNCHANGED <<password, dictionary, attempts_per_sec, requests, hibp_cache, ui>>

NextHistory == AddToHistory \/ ClearHistoryList

SpecHistory == InitHistory /\ [][NextHistory]_vars

\* the entries are in reverse order of insertion, none missing in between
MostRecentFirst(history) ==
    \A k \in 1..(Len(history) - 1) : history[k].time = history[k + 1].time + 1

\* C13: after every addition the list has at most 25 entries, begins with the
\* entry just added, is in reverse order of insertion and is the former list
\* behind the new entry, less its oldest entry if it had 25; after every
\* clearing it is empty
C13_RollingHistory ==
    [][/\ ret'.fn = "add_to_history" =>
            /\ Len(session_state'.history) <= 25
            /\ session_state'.history[1] = HistoryEntry(ret'.added)
            /\ MostRecentFirst(session_state'.history)
            /\ Len(session_state'.history) =
                   IF Len(session_state.history) = 25 THEN 25
                   ELSE Len(session_state.history) + 1
            /\ \A k \in 2..Len(session_state'.history) :
                   session_state'.history[k] = session_state.history[k - 1]
       /\ ret'.fn = "clear_history" => session_state'.history = <<>>]_vars

\* an addition has dropped the oldest of 25 entries
C13_Witness ==
    /\ ret.fn = "add_to_history"
    /\ ret.added = 26
    /\ Len(session_state.history) = 25
    /\ session_state.history[25] = HistoryEntry(2)


---------------------------------------------------------------------------
(* The hybrid estimator, on the inputs of SpecAttack                       *)

\* the exponent of the effective keyspace, in tenths
ExponentTenths(penalties) ==
    IF penalties >= 3 THEN 5 ELSE IF penalties = 2 THEN 7 ELSE 9

\* ((keyspace ^ exponent) / 2) / throughput for the password on hand, with an
\* empty keyspace taken as 1 and the throughput floored at 1e-30
HybridTimeAsClaimed ==
    [base |-> IF detect_charset_size(password).keyspace = <<>> THEN BigOne
              ELSE detect_charset_size(password).keyspace,
     tenths |-> ExponentTenths(pattern_penalties(password).val.penalties),
     halved |-> TRUE,
     speed |-> IF attempts_per_sec > 0 THEN attempts_per_sec ELSE 0]

\* C14: every call of estimate_hybrid_time returns
\* ((keyspace ^ exponent) / 2) / throughput, with the exponent 0.5, 0.7 or 0.9
\* chosen by the password's pattern penalty total (>= 3, = 2, otherwise) and a
\* keyspace <= 0 taken as 1, whatever the dictionary argument is
C14_HybridTime ==
    ret.fn = "estimate_hybrid_time" =>
        /\ ret.res.exc = ""
        /\ ret.res.val = HybridTimeAsClaimed
        /\ ret.res = estimate_hybrid_time(password, <<>>, attempts_per_sec)

\* the same for the calls that return: the calls that raise are those of C4
HybridTimeWhenItReturns ==
    (ret.fn = "estimate_hybrid_time" /\ ret.res.exc = "") =>
        /\ ret.res.val = HybridTimeAsClaimed
        /\ ret.res = estimate_hybrid_time(password, <<>>, attempts_per_sec)

\* a call that returned for a password with two pattern findings and a
\* non-empty dictionary
HybridTimeReturned ==
    /\ ret.fn = "estimate_hybrid_time" /\ ret.res.exc = ""
    /\ ret.res.val.tenths = 7
    /\ dictionary # <<>>


---------------------------------------------------------------------------
(* The word loop of the dictionary estimator, on the inputs of SpecDict    *)

\* the distinct non-blank words of the word list on hand, case-folded
DistinctWords == SeqToSet(dict_list_of(dictionary))

\* the password is w or Capitalized(w) followed by 1..3 digits
WordPlusDigits(pw, w) ==
    /\ Len(pw) - Len(w) \in 1..3
    /\ SubSeq(pw, 1, Len(w)) \in {w, capitalize(w)}
    /\ str_isdigit(SubSeq(pw, Len(w) + 1, Len(pw)))

\* the attempts counted when the walk stops at a word after `missed` words
\* that did not match, the password having `digits` trailing digits: 1112 for
\* each word missed, 1 + 1 for the two forms of the word, 10^d for d up to
\* the number of digits
AttemptsAtHit(missed, digits) ==
    1112 * missed + 2
        + (IF digits >= 1 THEN 10 ELSE 0) + (IF digits >= 2 THEN 100 ELSE 0)
        + (IF digits >= 3 THEN 1000 ELSE 0)

SecondsFor(attempts) == div_by_speed([num |-> BigOf(attempts), den |-> 1], attempts_per_sec)

\* C15: when the case-folded password is not a word of the list, the call
\* reports a hit if and only if the password is some word, or its capitalized
\* form, followed by 1..3 digits; a hit costs 1112 attempts for each word
\* walked before, 2 for the word and 10^d for each d up to the number of
\* trailing digits; without a hit the cost is 1112 attempts for each distinct
\* non-blank word (0 for an empty list); seconds = attempts / throughput
C15_WordWalkAttempts ==
    (IsDictCall /\ lower(password) \notin DistinctWords) =>
        /\ ret.res.val.found <=> \E w \in DistinctWords : WordPlusDigits(password, w)
        /\ ~ret.res.val.found =>
              ret.res.val.secs = SecondsFor(1112 * Cardinality(DistinctWords))
        /\ ret.res.val.found =>
              \E w \in DistinctWords :
                 /\ WordPlusDigits(password, w)
                 /\ \E missed \in 0..(Cardinality(DistinctWords) - 1) :
                       ret.res.val.secs =
                           SecondsFor(AttemptsAtHit(missed, Len(password) - Len(w)))

\* a hit on the second word walked: "Abc12" over the words xyz, abc
C15_Witness ==
    /\ IsDictCall
    /\ password = "Abc12"
    /\ dictionary = <<"xyz", "abc">>
    /\ attempts_per_sec = 2
    /\ ret.res.val.found
    /\ ret.res.val.secs = SecondsFor(1112 + 112)

\* the list exhausted without a hit: 2 distinct words, 2224 attempts
WordWalkExhausted ==
    /\ IsDictCall
    /\ password = "abc1234"
    /\ dictionary = <<"xyz", "abc", "Abc">>
    /\ attempts_per_sec = 1
    /\ ~ret.res.val.found
    /\ ret.res.val.secs = SecondsFor(2224)


---------------------------------------------------------------------------
(* Specification of the pattern detectors: one call per step on a fixed    *)
(* password                                                                *)

DetectorSamples ==
    {"aaaaa", "xaaaab", "aabbbbcc", "1111", "zzzzzzz", "AAAa",
     "abAB", "abab", "abcabc", "abcabd", "aaaa", "abcabcabc", "xyxyxyxy", "abcdabce",
     "abcd", "12345", "123", "0123456789", "qwertyuiop", "cba321", "xyz987", "ABCdef",
     "l3tm31n", "Letmein", "QWERTY", "Qw3r7y!", "f00tb4ll", "football", "dr4g0n",
     "m0nk3y", "@dm1n", "w3lc0m3", "l0g1n", "$un5h1n3", "pr1nc3$$", "1l0v3y0u",
     "p455w0rd", "xxMonkeyxx", "my+dragon"}

DetectorPasswords == Passwords \cup DetectorSamples

InitDetectors ==
    /\ password \in DetectorPasswords
    /\ dictionary = load_dictionary(None)
    /\ attempts_per_sec = 20000
    /\ ret = NoCall
    /\ IdleRest

RepeatedRuns ==
    /\ ret' = [fn |-> "repeated_runs", res |-> Returns(repeated_runs(password, 3))]
    /\ UNCHANGED <<password, dictionary, attempts_per_sec, requests, hibp_cache,
                   session_state, ui>>

RepeatedSubstring ==
    /\ ret' = [fn |-> "repeated_substring", res |-> Returns(repeated_substring(password))]
    /\ UNCHANGED <<password, dictionary, attempts_per_sec, requests, hibp_cache,
                   session_state, ui>>

FindSequences ==
    /\ ret' = [fn |-> "find_sequences", res |-> Returns(find_sequences(password, 3))]
    /\ UNCHANGED <<password, dictionary, attempts_per_sec, requests, hibp_cache,
                   session_state, ui>>

Deleet ==
    /\ ret' = [fn |-> "deleet", res |-> Returns(deleet(password))]
    /\ UNCHANGED <<password, dictionary, attempts_per_sec, requests, hibp_cache,
                   session_state, ui>>

NextDetectors ==
    RepeatedRuns \/ RepeatedSubstring \/ FindSequences \/ Deleet \/ PatternPenalties

SpecDetectors == InitDetectors /\ [][NextDetectors]_vars

\* the character at position i
CharAt(pw, i) == SubSeq(pw, i, i)

\* positions i..j hold one character, and the run is not part of a longer one
IsMaximalRun(pw, i, j) ==
    /\ \A k \in i..j : CharAt(pw, k) = CharAt(pw, i)
    /\ i = 1 \/ CharAt(pw, i - 1) # CharAt(pw, i)
    /\ j = Len(pw) \/ CharAt(pw, j + 1) # CharAt(pw, i)

\* the maximal runs of at least 3 identical characters, as <<first, last>>
LongRuns(pw) ==
    { r \in (1..Len(pw)) \X (1..Len(pw)) :
         r[2] - r[1] + 1 >= 3 /\ IsMaximalRun(pw, r[1], r[2]) }

\* C16: repeated_runs returns None when the password has no run of at least
\* 3 identical consecutive characters, and otherwise the whole of the first
\* such run: its character repeated as many times as the run is long
C16_RepeatedRunsReturnsFullRun ==
    ret.fn = "repeated_runs" =>
        IF LongRuns(password) = {} THEN ret.res.val = None
        ELSE \E r \in LongRuns(password) :
                /\ \A q \in LongRuns(password) : r[1] <= q[1]
                /\ ret.res.val = Some(SubSeq(password, r[1], r[2]))

\* what the loop does: it returns at the third character of the first such
\* run, so the result is always 3 characters long
RepeatedRunsReturnsFirstThree ==
    ret.fn = "repeated_runs" =>
        IF LongRuns(password) = {} THEN ret.res.val = None
        ELSE \E r \in LongRuns(password) :
                /\ \A q \in LongRuns(password) : r[1] <= q[1]
                /\ ret.res.val = Some(SubSeq(password, r[1], r[1] + 2))


---------------------------------------------------------------------------
(* The leet-speak dictionary hit, on the inputs of SpecDetectors           *)

\* character c of a password spells the letter x: x in either case, or one
\* of the substitutions 4/@ for a, 3 for e, 1/! for i, 0 for o, $/5 for s,
\* 7 for t
Spells(c, x) ==
    \/ lower(c) = x
    \/ x = "a" /\ c \in {"4", "@"}
    \/ x = "e" /\ c = "3"
    \/ x = "i" /\ c \in {"1", "!"}
    \/ x = "o" /\ c = "0"
    \/ x = "s" /\ c \in {"$", "5"}
    \/ x = "t" /\ c = "7"

\* the password contains the word w, spelled literally, in any letter case or
\* with leet substitutions
ContainsSpelling(pw, w) ==
    \E i \in 1..(Len(pw) - Len(w) + 1) :
       \A k \in 1..Len(w) : Spells(CharAt(pw, i + k - 1), CharAt(w, k))

\* the words of the default list that are among the findings of the last call
CommonWordHits ==
    UNION { n.detail : n \in { m \in SeqToSet(ret.res.val.notes) :
                                   m.kind = "Common words after deleet" } }

IsPenaltiesResult == ret.fn = "pattern_penalties" /\ ret.res.exc = ""

\* the contribution of the detector to the penalties of the last call
CommonWordContribution == IF CommonWordHits # {} THEN 1 ELSE 0

DefaultWords == SeqToSet(DEFAULT_DICT_SAMPLE)

\* the default words spelled with the letter t
WordsWithT == { w \in DefaultWords : Contains("t", w) }

WordWithTMissed ==
    /\ IsPenaltiesResult
    /\ password = "l3tm31n"
    /\ ContainsSpelling(password, "letmein")
    /\ CommonWordHits = {}


---------------------------------------------------------------------------
(* Letter case and the pattern penalty, on the inputs of SpecDetectors     *)

\* 1 if the detector's result is a non-empty string
Found(result) == IF result # None /\ result[1] # "" THEN 1 ELSE 0

\* C18: in every result pattern_penalties returns for a password, the penalty
\* total is the one it returns for the lower-cased password
C18_PenaltyInvariantUnderCase ==
    IsPenaltiesResult =>
        /\ pattern_penalties(lower(password)).exc = ""
        /\ ret.res.val.penalties = pattern_penalties(lower(password)).val.penalties

\* what the code does: the two totals differ by what repeated_runs and
\* repeated_substring, which read the password as typed, find in one form and
\* not in the other
PenaltyDiffersByRawDetectors ==
    IsPenaltiesResult =>
        /\ pattern_penalties(lower(password)).exc = ""
        /\ pattern_penalties(lower(password)).val.penalties - ret.res.val.penalties =
                (Found(repeated_runs(lower(password), 3)) - Found(repeated_runs(password, 3)))
              + (Found(repeated_substring(lower(password)))
                     - Found(repeated_substring(password)))


---------------------------------------------------------------------------
(* The sequence detector, on the inputs of SpecDetectors                   *)

\* the a-z alphabet, the digits and the 4 keyboard rows
Universes ==
    {"abcdefghijklmnopqrstuvwxyz", "0123456789",
     "1234567890", "qwertyuiop", "asdfghjkl", "zxcvbnm"}

\* the 3-character substrings of the lower-cased password that run along a
\* universe, forwards or backwards
DistinctWindows(pw) ==
    { s \in { SubSeq(lower(pw), i, i + 2) : i \in 1..(Len(pw) - 2) } :
         \E u \in Universes : Contains(s, u) \/ Contains(Reverse(s), u) }

\* the sequence windows among the findings of the last call
SequenceFindings ==
    UNION { n.detail : n \in { m \in SeqToSet(ret.res.val.notes) :
                                   m.kind = "Sequential patterns" } }

\* the penalties of the last call less 1 for each finding of another detector
SequenceContribution ==
    ret.res.val.penalties
        - Cardinality({ k \in 1..Len(ret.res.val.notes) :
                           ret.res.val.notes[k].kind # "Sequential patterns" })

\* C19: find_sequences returns the distinct 3-character windows of the
\* universes that occur in the lower-cased password, a window of two
\* universes once; in every result of pattern_penalties the share of the
\* sequence detector in the penalties is 0 when there is no such window and
\* 1 + min(3, m // 2) when there are m
C19_SequenceContribution ==
    /\ ret.fn = "find_sequences" => ret.res.val = DistinctWindows(password)
    /\ IsPenaltiesResult =>
          /\ SequenceFindings = DistinctWindows(password)
          /\ SequenceContribution =
                IF DistinctWindows(password) = {} THEN 0
                ELSE 1 + Min(3, Cardinality(DistinctWindows(password)) \div 2)

\* three windows, each in the digits and in the number row, counted once
\* each: the contribution is 1 + 3 // 2 = 2
C19_Witness ==
    /\ IsPenaltiesResult
    /\ password = "12345"
    /\ SequenceFindings = {"123", "234", "345"}
    /\ SequenceContribution = 2

\* eight windows: the contribution is capped at 1 + 3
SequenceContributionCapped ==
    /\ IsPenaltiesResult
    /\ password = "qwertyuiop"
    /\ Cardinality(SequenceFindings) = 8
    /\ SequenceContribution = 4


---------------------------------------------------------------------------
(* The repeated-substring detector, on the inputs of SpecDetectors         *)

\* the password is its first l characters over and over: l divides its
\* length, is at most half of it, and every character equals the one l
\* places before it
IsPeriod(pw, l) ==
    /\ 1 <= l /\ 2 * l <= Len(pw)
    /\ Len(pw) % l = 0
    /\ \A i \in (l + 1)..Len(pw) : CharAt(pw, i) = CharAt(pw, i - l)

\* C20: repeated_substring returns None when no prefix of at most half the
\* password, of a length dividing the password's, rebuilds the password by
\* repetition (so for every password of length 0 or 1), and otherwise the
\* shortest such prefix: repeated len(s) / len(sub) times it is the
\* password, and no shorter prefix is
C20_ShortestRepeatedPrefix ==
    ret.fn = "repeated_substring" =>
        IF \A l \in 1..Len(password) : ~IsPeriod(password, l)
        THEN ret.res.val = None
        ELSE /\ ret.res.val # None
             /\ ret.res.val[1] = SubSeq(password, 1, Len(ret.res.val[1]))
             /\ IsPeriod(password, Len(ret.res.val[1]))
             /\ Repeat(ret.res.val[1], Len(password) \div Len(ret.res.val[1])) = password
             /\ \A l \in 1..(Len(ret.res.val[1]) - 1) : ~IsPeriod(password, l)

\* 'abcabc' gives 'abc'
C20_Witness ==
    /\ ret.fn = "repeated_substring"
    /\ password = "abcabc"
    /\ ret.res.val = Some("abc")

\* 'abcabd' gives None
NoRepeatedSubstring ==
    /\ ret.fn = "repeated_substring"
    /\ password = "abcabd"
    /\ ret.res.val = None

\* of the periods 2 and 4 of 'xyxyxyxy' the shorter is returned
ShorterOfTwoPeriods ==
    /\ ret.fn = "repeated_substring"
    /\ password = "xyxyxyxy"
    /\ ret.res.val = Some("xy")


---------------------------------------------------------------------------
(* Specification of the keyboard-walk detector with its dependants: one    *)
(* call per step on a fixed password                                       *)

\* a password that every detector flags: it is "adminqwert2002aaa" followed
\* by its reverse, twice over
EveryDetectorFires ==
    Repeat("adminqwert2002aaa" \o Reverse("adminqwert2002aaa"), 2)

WalkSamples ==
    {"qwer", "QWER", "rewq", "1234", "zxcv", "lkjh", "Asdf!9", "xqwerx", "qwe", "qwr",
     "asdf1999", "poiuytrewq", "7890", "qwer²²²²", "zxcv1²34", EveryDetectorFires}

WalkPasswords == DetectorPasswords \cup WalkSamples

InitWalks ==
    /\ password \in WalkPasswords
    /\ dictionary = load_dictionary(None)
    /\ attempts_per_sec = 50000000
    /\ ret = NoCall
    /\ IdleRest

KeyboardWalks ==
    /\ ret' = [fn |-> "keyboard_walks", res |-> Returns(keyboard_walks(password, 4))]
    /\ UNCHANGED <<password, dictionary, attempts_per_sec, requests, hibp_cache,
                   session_state, ui>>

NextWalks == KeyboardWalks \/ FindSequences \/ PatternPenalties \/ EstimateHybridTime

SpecWalks == InitWalks /\ [][NextWalks]_vars

\* the keyboard-walk detector finds a match in the password on hand
WalkFound == keyboard_walks(password, 4) # {}

\* C21: for a password in which the keyboard-walk detector finds a match,
\* find_sequences returns at least two distinct windows, pattern_penalties
\* returns a total of at least 3 and estimate_hybrid_time takes the exponent
\* 0.5; for every password pattern_penalties returns a total within 0..10
C21_WalkGivesHalfExponent ==
    /\ WalkFound =>
          /\ ret.fn = "find_sequences" => Cardinality(ret.res.val) >= 2
          /\ ret.fn = "pattern_penalties" =>
                ret.res.exc = "" /\ ret.res.val.penalties >= 3
          /\ ret.fn = "estimate_hybrid_time" =>
                ret.res.exc = "" /\ ret.res.val.tenths = 5
    /\ ret.fn = "pattern_penalties" =>
          ret.res.exc = "" /\ ret.res.val.penalties \in 0..10

\* the same on the calls that return: the calls that raise are those of C4
WalkGivesHalfExponentWhenReturned ==
    /\ WalkFound =>
          /\ ret.fn = "find_sequences" => Cardinality(ret.res.val) >= 2
          /\ (ret.fn = "pattern_penalties" /\ ret.res.exc = "") =>
                ret.res.val.penalties >= 3
          /\ (ret.fn = "estimate_hybrid_time" /\ ret.res.exc = "") =>
                ret.res.val.tenths = 5
    /\ (ret.fn = "pattern_penalties" /\ ret.res.exc = "") =>
          ret.res.val.penalties \in 0..10

\* a walk found and the exponent 0.5 taken, on exactly 3 penalties
WalkTookHalfExponent ==
    /\ ret.fn = "estimate_hybrid_time" /\ ret.res.exc = ""
    /\ password = "xqwerx"
    /\ WalkFound
    /\ pattern_penalties(password).val.penalties = 3
    /\ ret.res.val.tenths = 5

\* the total of 10 is reached
PenaltyTotalOfTen ==
    /\ IsPenaltiesResult
    /\ password = EveryDetectorFires
    /\ ret.res.val.penalties = 10


---------------------------------------------------------------------------
(* The PDF button, on the sessions of SpecUI                               *)

\* the run that ends in the next state was started by the PDF button and
\* got to its handler
PdfPressed == ui'.shown \in {"download_pdf", "no_pass_for_pdf"}

\* the last run analysed the text of the password box and generated
\* nothing (a generation would have left its passphrase as the last
\* password), a passphrase having been generated in an earlier run
AnalyzedAfterGenerating ==
    /\ ui.shown = "analysis"
    /\ password # ""
    /\ session_state.generated_passphrase # None
    /\ session_state.last_password_raw = Some(password)

\* C22: when a passphrase was generated, a password P was analysed after
\* that and the PDF button is pressed next, the report produced is the one
\* for P; when the button is pressed with nothing analysed and nothing
\* generated, the warning is shown and no report is produced
C22_PdfReportsLastAnalyzed ==
    [][PdfPressed =>
          /\ (AnalyzedAfterGenerating /\ password' = password) =>
                /\ ui'.shown = "download_pdf"
                /\ ui'.pdf_for = Some(password)
          /\ (/\ session_state'.last_password_raw = None
              /\ session_state'.generated_passphrase = None) =>
                /\ ui'.shown = "no_pass_for_pdf"
                /\ ui'.pdf_for = None]_vars

\* what the handler does: once a passphrase was generated the report is the
\* one for the text of the generated-passphrase box, whatever was analysed
\* since; before that it is the one for the last password analysed
PdfReportsGeneratedPassphraseFirst ==
    [][PdfPressed =>
          /\ session_state'.generated_passphrase # None =>
                /\ ui'.shown = "download_pdf"
                /\ ui'.pdf_for = session_state'.gen_pass
                /\ ui'.pdf_for[1] \in Phrases
          /\ (/\ session_state'.generated_passphrase = None
              /\ session_state'.last_password_raw # None) =>
                /\ ui'.shown = "download_pdf"
                /\ ui'.pdf_for = session_state'.last_password_raw
          /\ (/\ session_state'.last_password_raw = None
              /\ session_state'.generated_passphrase = None) =>
                /\ ui'.shown = "no_pass_for_pdf"
                /\ ui'.pdf_for = None]_vars

\* a report on the generated passphrase with another password in the box
PdfForEarlierPassphrase ==
    /\ ui.shown = "download_pdf"
    /\ password = "abc"
    /\ ui.pdf_for # None /\ ui.pdf_for[1] \in Phrases
    /\ session_state.last_password_raw = Some("abc")

\* the warning of a press with nothing analysed or generated
PdfWarning ==
    /\ ui.shown = "no_pass_for_pdf"
    /\ session_state.last_password_raw = None

=============================================================================
